---------------------------- MODULE Spec2Model ----------------------------
(***************************************************************************)
(* A model of src/app.py, the "AI Resume & Job Matcher" Streamlit app.     *)
(*                                                                         *)
(* A text (a Python str) is a sequence of characters, a character being a  *)
(* one-character string; the three non-ASCII characters of the source's    *)
(* bullet literal are the tokens "U+00E2", "U+20AC", "U+00A2".  None is    *)
(* Python's None.  A float that the code computes as a quotient is kept as *)
(* the exact fraction [num, den].                                          *)
(***************************************************************************)
EXTENDS Integers, Sequences, FiniteSets, TLC

VARIABLES
    docx2txt,            \* the optional parser modules (lines 11-19):
    PyPDF2,              \*   "module" or None
    resume_file,         \* st.file_uploader's value: an upload or None
    resume_text_manual,  \* the resume text area
    jd_text,             \* the job description text area
    session_rt,          \* st.session_state.rt
    session_jd,          \* st.session_state.jd
    shown,               \* what the last script run rendered
    prompt,              \* the last prompt handed to the chat completion
    tmp_file,            \* whether temp_upload.docx exists on disk
    args,                \* the arguments of the function applied on its own
    ret,                 \* its return value
    scored               \* history: the texts of the last successful scoring

vars == <<docx2txt, PyPDF2, resume_file, resume_text_manual, jd_text,
          session_rt, session_jd, shown, prompt, tmp_file, args, ret, scored>>

appVars == <<docx2txt, PyPDF2, resume_file, resume_text_manual, jd_text,
             session_rt, session_jd, shown, prompt, tmp_file, scored>>

\* Python's None where a text may stand: no text has a four-letter element
None == <<"None">>
\* Python's None where an upload may stand
NoFile == [isNone |-> TRUE]
\* before the function under study has returned
NotCalled == [done |-> FALSE]
Returned(v) == [done |-> TRUE, value |-> v]

(***************************************************************************)
(* Characters and texts                                                    *)
(***************************************************************************)
\* str.isspace / the regex class \s, on the characters of the model
IsSpace(c) == c \in {" ", "\t", "\n", "\r", "\f"}

IsDigit(c) == c \in {"0", "1", "2", "3", "4", "5", "6", "7", "8", "9"}

UpperChars == <<"A", "B", "C", "D", "E", "F", "G", "H", "I", "J", "K", "L", "M",
                "N", "O", "P", "Q", "R", "S", "T", "U", "V", "W", "X", "Y", "Z">>
LowerChars == <<"a", "b", "c", "d", "e", "f", "g", "h", "i", "j", "k", "l", "m",
                "n", "o", "p", "q", "r", "s", "t", "u", "v", "w", "x", "y", "z">>
UpperSet == {UpperChars[i] : i \in 1..26}
LowerSet == {LowerChars[i] : i \in 1..26}
LowerMap == [c \in UpperSet |-> LowerChars[CHOOSE i \in 1..26 : UpperChars[i] = c]]

\* str.lower on one character
LowerChar(c) == IF c \in UpperSet THEN LowerMap[c] ELSE c
\* str.lower, the result held as a tuple
Lower(t) == <<>> \o [i \in 1..Len(t) |-> LowerChar(t[i])]

IsLetter(c) == c \in UpperSet \/ c \in LowerSet
\* the regex class \w on the characters of the model
IsWordChar(c) == IsLetter(c) \/ IsDigit(c) \/ c = "_" \/ c = "U+00E2"

\* all texts over the characters S of at most n characters
TextsUpTo(S, n) == UNION {[1..k -> S] : k \in 0..n}

RECURSIVE Flatten(_)
\* the concatenation of a sequence of texts
Flatten(chunks) ==
    IF chunks = <<>> THEN <<>> ELSE Head(chunks) \o Flatten(Tail(chunks))

\* whether pat occurs in t at position i
MatchAt(t, pat, i) ==
    /\ i + Len(pat) - 1 <= Len(t)
    /\ \A k \in 1..Len(pat) : t[i + k - 1] = pat[k]

\* pat in t
Contains(t, pat) == \E i \in 1..(Len(t) - Len(pat) + 1) : MatchAt(t, pat, i)

(***************************************************************************)
(* clean_text (lines 118-121)                                              *)
(***************************************************************************)
\* re.sub(r"\s{2}", " ", t): a plausible slip for \s+, which halves a run
sub_whitespace_pairs(t) ==
    LET F[i \in 0..Len(t)] ==
            \* <<output so far, whether t[i] is the first of an open pair>>
            IF i = 0 THEN <<<<>>, FALSE>>
            ELSE LET prev == F[i - 1] IN
                 IF IsSpace(t[i])
                 THEN IF prev[2] THEN <<Append(prev[1], " "), FALSE>>
                      ELSE IF i < Len(t) /\ IsSpace(t[i + 1])
                           THEN <<prev[1], TRUE>>
                           ELSE <<Append(prev[1], t[i]), FALSE>>
                 ELSE <<Append(prev[1], t[i]), FALSE>>
    IN  F[Len(t)][1]

\* re.sub(r"\s+", " ", t): every maximal run of whitespace becomes one space
sub_whitespace(t) ==
    LET \* the places that are no whitespace or the first of a run of it
        kept == SelectSeq(<<>> \o [i \in 1..Len(t) |-> i],
                          LAMBDA i : ~IsSpace(t[i]) \/ i = 1 \/ ~IsSpace(t[i - 1]))
    IN  <<>> \o [k \in 1..Len(kept) |->
                    IF IsSpace(t[kept[k]]) THEN " " ELSE t[kept[k]]]

\* str.strip(): without the leading and the trailing whitespace
strip(t) ==
    IF \A i \in 1..Len(t) : IsSpace(t[i]) THEN <<>>
    ELSE LET lo == CHOOSE i \in 1..Len(t) :
                      ~IsSpace(t[i]) /\ \A j \in 1..(i - 1) : IsSpace(t[j])
             hi == CHOOSE i \in 1..Len(t) :
                      ~IsSpace(t[i]) /\ \A j \in (i + 1)..Len(t) : IsSpace(t[j])
         IN  SubSeq(t, lo, hi)

clean_text(t) ==
    LET t1 == IF t = None \/ t = <<>> THEN <<>> ELSE t   \* t = t or ""
        t2 == sub_whitespace(t1)
    IN  strip(t2)

(***************************************************************************)
(* keyword_coverage (lines 124-130)                                        *)
(***************************************************************************)
\* the characters of the model in code point order, from U+0020 on
Ascii == <<" ", "!", "\"", "#", "$", "%", "&", "'", "(", ")", "*", "+", ",", "-",
           ".", "/", "0", "1", "2", "3", "4", "5", "6", "7", "8", "9", ":", ";",
           "<", "=", ">", "?", "@", "A", "B", "C", "D", "E", "F", "G", "H", "I",
           "J", "K", "L", "M", "N", "O", "P", "Q", "R", "S", "T", "U", "V", "W",
           "X", "Y", "Z", "[", "\\", "]", "^", "_", "U+0060", "a", "b", "c", "d", "e",
           "f", "g", "h", "i", "j", "k", "l", "m", "n", "o", "p", "q", "r", "s",
           "t", "u", "v", "w", "x", "y", "z", "{", "|", "}", "~">>
CodePoint == [c \in {Ascii[i] : i \in 1..Len(Ascii)} |->
                 31 + CHOOSE i \in 1..Len(Ascii) : Ascii[i] = c]

\* Python's order of two strs: by code points, a proper prefix first
TextLess(a, b) ==
    \E k \in 1..(Len(b)) :
        /\ \A j \in 1..(k - 1) : j <= Len(a) /\ a[j] = b[j]
        /\ k - 1 <= Len(a)
        /\ (k > Len(a) \/ CodePoint[a[k]] < CodePoint[b[k]])

RECURSIVE sorted(_)
\* sorted(set(words)), as a list
sorted(S) ==
    IF S = {} THEN <<>>
    ELSE LET m == CHOOSE x \in S : \A y \in S : x = y \/ TextLess(x, y)
         IN  <<m>> \o sorted(S \ {m})

\* the class [a-zA-Z\+\#\.\-]
IsKeywordChar(c) == IsLetter(c) \/ c \in {"+", "#", ".", "-"}

\* re.findall(r"[a-zA-Z][a-zA-Z\+\#\.\-]{1,}", t): the leftmost, longest,
\* non-overlapping matches, in order
findall_keywords(t) ==
    LET RunEnd(i) == CHOOSE j \in (i + 1)..Len(t) :
                        /\ \A k \in (i + 1)..j : IsKeywordChar(t[k])
                        /\ (j = Len(t) \/ ~IsKeywordChar(t[j + 1]))
        Starts(i) == IsLetter(t[i]) /\ i < Len(t) /\ IsKeywordChar(t[i + 1])
        \* the matches from place i on
        F[i \in 1..(Len(t) + 1)] ==
            IF \A s \in i..Len(t) : ~Starts(s) THEN <<>>
            ELSE LET s == CHOOSE s \in i..Len(t) :
                              Starts(s) /\ \A k \in i..(s - 1) : ~Starts(k)
                 IN  <<SubSeq(t, s, RunEnd(s))>> \o F[RunEnd(s) + 1]
    IN  F[1]

Max(a, b) == IF a >= b THEN a ELSE b

Range(list) == {list[i] : i \in 1..Len(list)}

\* keyword_coverage with the divisor len(unique), the guard max(1, .) left out
keyword_coverage_unguarded(resume_text, jd_text_) ==
    LET resume == Lower(resume_text)
        all == findall_keywords(Lower(jd_text_))
        words == SelectSeq(all, LAMBDA w : Len(w) > 2)
        unique == sorted(Range(words))
        found == SelectSeq(unique, LAMBDA w : Contains(resume, w))
    IN  [coverage |-> [num |-> Len(found) * 100, den |-> Len(unique)],
         found |-> found, unique |-> unique]

keyword_coverage(resume_text, jd_text_) ==
    LET resume == Lower(resume_text)
        all == findall_keywords(Lower(jd_text_))
        words == SelectSeq(all, LAMBDA w : Len(w) > 2)
        unique == sorted(Range(words))
        found == SelectSeq(unique, LAMBDA w : Contains(resume, w))
        \* (len(found) / max(1, len(unique))) * 100.0, as an exact fraction
    IN  [coverage |-> [num |-> Len(found) * 100, den |-> Max(1, Len(unique))],
         found |-> found, unique |-> unique]

(***************************************************************************)
(* detect_ats_issues (lines 144-158)                                       *)
(***************************************************************************)
ShortLimit == 500

\* re.search(pat, t, flags=re.I) for a pattern pat of lower-case literals
ContainsIgnoreCase(t, pat) == Contains(Lower(t), pat)

\* re.search(r"\d{10}", t)
HasTenDigits(t) ==
    \E i \in 1..(Len(t) - 9) : \A k \in 0..9 : IsDigit(t[i + k])

\* re.search(r"\(\d{3}\)\d{3}-\d{4}", t): the pattern without its \s*, which
\* misses a number written with a space after the area code
HasPhonePattern_no_space(t) ==
    \E i \in 1..(Len(t) - 12) :
        /\ t[i] = "("
        /\ \A k \in 1..3 : IsDigit(t[i + k])
        /\ t[i + 4] = ")"
        /\ \A k \in 5..7 : IsDigit(t[i + k])
        /\ t[i + 8] = "-"
        /\ \A k \in 9..12 : IsDigit(t[i + k])

\* re.search(r"\(\d{3}\)\s*\d{3}-\d{4}", t)
HasPhonePattern(t) ==
    \E i \in 1..(Len(t) - 12) :
        /\ t[i] = "("
        /\ \A k \in 1..3 : IsDigit(t[i + k])
        /\ t[i + 4] = ")"
        /\ \E j \in (i + 5)..(Len(t) - 7) :
              /\ \A k \in (i + 5)..(j - 1) : IsSpace(t[k])
              /\ \A k \in 0..2 : IsDigit(t[j + k])
              /\ t[j + 3] = "-"
              /\ \A k \in 4..7 : IsDigit(t[j + k])

EducationWords == {<<"e", "d", "u", "c", "a", "t", "i", "o", "n">>, <<"b", "a", "c", "h", "e", "l", "o", "r">>, <<"m", "a", "s", "t", "e", "r">>, <<"u", "n", "i", "v", "e", "r", "s", "i", "t", "y">>}
ExperienceWords == {<<"e", "x", "p", "e", "r", "i", "e", "n", "c", "e">>, <<"w", "o", "r", "k", " ", "h", "i", "s", "t", "o", "r", "y">>, <<"e", "m", "p", "l", "o", "y", "m", "e", "n", "t">>}

AtsMessages ==
    <<"Resume seems short. Add detail and measurable achievements.",
      "Avoid TAB characters; some ATS parsers misread complex formatting.",
      "Missing contact email.",
      "Missing phone number.",
      "Education section not detected (use heading 'Education').",
      "Experience section not detected (use heading 'Experience').">>

\* the condition of the k-th check of the list
AtsCondition(k, resume_text) ==
    CASE k = 1 -> Len(resume_text) < ShortLimit
      [] k = 2 -> Contains(resume_text, <<"\t">>)
      [] k = 3 -> ~Contains(resume_text, <<"@">>)
      [] k = 4 -> ~HasTenDigits(resume_text) /\ ~HasPhonePattern(resume_text)
      [] k = 5 -> ~\E w \in EducationWords : ContainsIgnoreCase(resume_text, w)
      [] k = 6 -> ~\E w \in ExperienceWords : ContainsIgnoreCase(resume_text, w)

\* detect_ats_issues with the checks chained by elif: the first finding only
detect_ats_issues_elif(resume_text) ==
    LET hits == {k \in 1..6 : AtsCondition(k, resume_text)} IN
    IF hits = {} THEN <<>>
    ELSE <<AtsMessages[CHOOSE k \in hits : \A j \in hits : k <= j]>>

detect_ats_issues(resume_text) ==
    LET issues[k \in 0..6] ==
            IF k = 0 THEN <<>>
            ELSE IF AtsCondition(k, resume_text)
                 THEN Append(issues[k - 1], AtsMessages[k])
                 ELSE issues[k - 1]
    IN  issues[6]

(***************************************************************************)
(* generate_suggestions (lines 161-172)                                    *)
(***************************************************************************)
\* the str literal of line 169: the three characters a UTF-8 bullet reads as
\* in a file taken for Windows-1252
Bullet == <<"U+00E2", "U+20AC", "U+00A2">>
Dash == <<"-", " ">>
BulletLimit == 3
MissingLimit == 15
ExampleLimit == 10

\* str.count(pat): the occurrences of pat counted from the left, none
\* overlapping another
Count(t, pat) ==
    LET \* the occurrences from place i on
        F[i \in 1..(Len(t) + 1)] ==
            IF \A s \in i..Len(t) : ~MatchAt(t, pat, s) THEN 0
            ELSE LET s == CHOOSE s \in i..Len(t) :
                              /\ MatchAt(t, pat, s)
                              /\ \A k \in i..(s - 1) : ~MatchAt(t, pat, k)
                 IN  1 + F[s + Len(pat)]
    IN  F[1]

\* the regex assertion \b before the character at place i
WordBoundary(t, i) ==
    (i <= Len(t) /\ IsWordChar(t[i])) # (i > 1 /\ IsWordChar(t[i - 1]))

\* re.search(r"\b(\d+%|\d{2,})\b", t)
HasQuantity(t) ==
    \E i \in 1..Len(t) :
        /\ WordBoundary(t, i)
        /\ \E j \in i..Len(t) :
              /\ \A k \in i..j : IsDigit(t[k])
              /\ \/ (j < Len(t) /\ t[j + 1] = "%" /\ WordBoundary(t, j + 2))
                 \/ (j >= i + 1 /\ WordBoundary(t, j + 1))

\* list[:n]
Take(list, n) == SubSeq(list, 1, IF Len(list) < n THEN Len(list) ELSE n)

KeywordsSuggestion(examples) ==
    [msg |-> "Add relevant JD keywords (missing examples: ...).",
     examples |-> examples]
QuantifySuggestion ==
    [msg |-> "Quantify achievements (e.g., 'Improved accuracy by 12%', 'Processed 1M+ rows').",
     examples |-> <<>>]
BulletSuggestion ==
    [msg |-> "Use concise bullet points with action verbs (Built, Led, Automated, Reduced).",
     examples |-> <<>>]
TailorSuggestion ==
    [msg |-> "Tailor the top 5 bullets to the role's must-have skills and responsibilities.",
     examples |-> <<>>]

\* generate_suggestions with the two marker counts added up before the test
generate_suggestions_total(resume_text, jd_text_, found_keywords) ==
    LET all_keywords == keyword_coverage(resume_text, jd_text_).unique
        missing == Take(SelectSeq(all_keywords,
                                  LAMBDA w : w \notin Range(found_keywords)),
                        MissingLimit)
        s1 == IF missing # <<>>
              THEN <<KeywordsSuggestion(Take(missing, ExampleLimit))>> ELSE <<>>
        s2 == IF ~HasQuantity(resume_text)
              THEN Append(s1, QuantifySuggestion) ELSE s1
        s3 == IF Count(resume_text, Bullet) + Count(resume_text, Dash) < BulletLimit
              THEN Append(s2, BulletSuggestion) ELSE s2
    IN  Append(s3, TailorSuggestion)

generate_suggestions(resume_text, jd_text_, found_keywords) ==
    LET all_keywords == keyword_coverage(resume_text, jd_text_).unique
        missing == Take(SelectSeq(all_keywords,
                                  LAMBDA w : w \notin Range(found_keywords)),
                        MissingLimit)
        s1 == IF missing # <<>>
              THEN <<KeywordsSuggestion(Take(missing, ExampleLimit))>> ELSE <<>>
        s2 == IF ~HasQuantity(resume_text)
              THEN Append(s1, QuantifySuggestion) ELSE s1
        s3 == IF /\ Count(resume_text, Bullet) < BulletLimit
                 /\ Count(resume_text, Dash) < BulletLimit
              THEN Append(s2, BulletSuggestion) ELSE s2
    IN  Append(s3, TailorSuggestion)

(***************************************************************************)
(* extract_text_from_upload (lines 60-115)                                 *)
(*                                                                         *)
(* An upload is [isNone, name, content, docx, pdf]: its name, its bytes,   *)
(* and what the two parser libraries do with those bytes:                  *)
(*   docx = [raises, text]    docx2txt.process raises, or returns text     *)
(*                            (a text or None)                             *)
(*   pdf  = [raises, pages]   PyPDF2.PdfReader or reader.pages raises, or  *)
(*                            the pages, each [raises, text]:              *)
(*                            extract_text raises, or returns text         *)
(* The file system is env = [write, remove]: open(tmp, "wb") and f.write   *)
(* succeed ("ok"), open raises ("open_raises") or f.write raises after the *)
(* file was created ("write_raises"); os.remove succeeds or raises.        *)
(***************************************************************************)
\* chr, on the code points the model's bytes decode to
Chr(cp) ==
    IF cp \in 32..126 THEN Ascii[cp - 31]
    ELSE IF cp = 233 THEN "U+00E9" ELSE "U+FFFF"

IsContinuation(b) == 128 <= b /\ b <= 191
IsLead2(b) == 194 <= b /\ b <= 223

\* bytes.decode("utf-8", errors="ignore") for bytes below 0xE0 or above 0xF4:
\* one-byte and two-byte sequences decode, any other byte is dropped
decode_utf8_ignore(content) ==
    LET F[i \in 1..(Len(content) + 1)] ==
            IF i > Len(content) THEN <<>>
            ELSE IF content[i] < 128 THEN <<Chr(content[i])>> \o F[i + 1]
            ELSE IF /\ IsLead2(content[i])
                    /\ i < Len(content)
                    /\ IsContinuation(content[i + 1])
                 THEN <<Chr((content[i] - 192) * 64 + (content[i + 1] - 128))>>
                          \o F[i + 2]
                 ELSE F[i + 1]
    IN  F[1]

\* for enc in ("utf-8", "latin-1"): try: return content.decode(enc,
\* errors="ignore"): with errors="ignore" the first decoding never raises
decode_fallback(content) == decode_utf8_ignore(content)

\* str.endswith
EndsWith(t, suffix) ==
    Len(t) >= Len(suffix) /\ MatchAt(t, suffix, Len(t) - Len(suffix) + 1)

\* value or ""
OrEmpty(text) == IF text = None THEN <<>> ELSE text

RECURSIVE Join(_, _)
\* sep.join(list)
Join(sep, list) ==
    IF list = <<>> THEN <<>>
    ELSE IF Len(list) = 1 THEN list[1]
    ELSE list[1] \o sep \o Join(sep, Tail(list))

\* what a try block of the function ends in: a return of text, or the fall
\* through its handler to the code below
Returns(text) == [returns |-> TRUE, text |-> text]
FallsThrough == [returns |-> FALSE, text |-> <<>>]

\* the .pdf block with the handler of lines 103-104 left out: a page whose
\* extract_text raises ends the whole block in the handler of line 106
pdf_block_page_unhandled(pdf) ==
    IF pdf.raises \/ \E i \in 1..Len(pdf.pages) : pdf.pages[i].raises
    THEN FallsThrough
    ELSE Returns(Join(<<"\n">>,
                      [i \in 1..Len(pdf.pages) |-> OrEmpty(pdf.pages[i].text)]))

\* the try block of lines 97-107: a page whose extract_text raises counts
\* as ""
pdf_block(pdf) ==
    IF pdf.raises THEN FallsThrough
    ELSE Returns(Join(<<"\n">>,
                      [i \in 1..Len(pdf.pages) |->
                          IF pdf.pages[i].raises THEN <<>>
                          ELSE OrEmpty(pdf.pages[i].text)]))

\* the try block of lines 82-93, with what it leaves of temp_upload.docx:
\* os.remove is reached only after docx2txt.process has returned
docx_block(docx, env, tmp) ==
    IF env.write = "open_raises"
    THEN [ended |-> FallsThrough, tmp_file |-> tmp, wrote_tmp |-> FALSE]
    ELSE IF env.write = "write_raises" \/ docx.raises
    THEN [ended |-> FallsThrough, tmp_file |-> TRUE, wrote_tmp |-> TRUE]
    ELSE [ended |-> Returns(OrEmpty(docx.text)),
          tmp_file |-> (env.remove = "raises"), wrote_tmp |-> TRUE]

\* The result: [raised, text, tmp_file, wrote_tmp], tmp_file being whether
\* temp_upload.docx exists at the return and wrote_tmp whether this call
\* created it.  libs is [docx2txt, PyPDF2], each "module" or "None".
extract_text_from_upload(uploaded_file, libs, env, tmp) ==
    IF uploaded_file.isNone
    THEN [raised |-> FALSE, text |-> <<>>, tmp_file |-> tmp, wrote_tmp |-> FALSE]
    ELSE
    LET name == Lower(uploaded_file.name)
        content == uploaded_file.content
        untouched == [ended |-> FallsThrough, tmp_file |-> tmp, wrote_tmp |-> FALSE]
        d == IF EndsWith(name, <<".", "d", "o", "c", "x">>) /\ libs.docx2txt # "None"
             THEN docx_block(uploaded_file.docx, env, tmp)
             ELSE untouched
        q == IF EndsWith(name, <<".", "p", "d", "f">>) /\ libs.PyPDF2 # "None"
             THEN pdf_block(uploaded_file.pdf)
             ELSE FallsThrough
        text == IF EndsWith(name, <<".", "t", "x", "t">>) THEN decode_fallback(content)
                ELSE IF d.ended.returns THEN d.ended.text
                ELSE IF q.returns THEN q.text
                ELSE decode_fallback(content)
        after == IF EndsWith(name, <<".", "t", "x", "t">>) THEN untouched ELSE d
    IN  [raised |-> FALSE, text |-> text,
         tmp_file |-> after.tmp_file, wrote_tmp |-> after.wrote_tmp]

(***************************************************************************)
(* similarity_score (lines 133-141)                                        *)
(*                                                                         *)
(* TfidfVectorizer(stop_words="english", ngram_range=(1, 2)) as            *)
(* scikit-learn documents it: the text in lower case, its tokens the runs  *)
(* of two or more word characters, the stop words dropped, the terms the   *)
(* tokens and the pairs of neighbouring tokens; the weight of a term in a  *)
(* document its count times idf = ln((1 + n) / (1 + df)) + 1 with n = 2    *)
(* documents.  fit_transform raises ValueError on an empty vocabulary.     *)
(* Weights are kept in tenths (idf 1.0 as 10, ln(3/2) + 1 as 14), and the  *)
(* cosine as [num, sq1, sq2], the value 100 * num / sqrt(sq1 * sq2).       *)
(***************************************************************************)
\* scikit-learn's ENGLISH_STOP_WORDS, cut to the words the model's texts hold
StopWords ==
    {<<"t", "h", "e">>, <<"a", "n", "d">>, <<"o", "f">>, <<"f", "o", "r">>,
     <<"w", "i", "t", "h">>}

\* the maximal runs of word characters of t, in order
word_runs(t) ==
    LET RunEnd(i) == CHOOSE j \in i..Len(t) :
                        /\ \A k \in i..j : IsWordChar(t[k])
                        /\ (j = Len(t) \/ ~IsWordChar(t[j + 1]))
        \* the runs from place i on
        F[i \in 1..(Len(t) + 1)] ==
            IF \A s \in i..Len(t) : ~IsWordChar(t[s]) THEN <<>>
            ELSE LET s == CHOOSE s \in i..Len(t) :
                              IsWordChar(t[s]) /\ \A k \in i..(s - 1) : ~IsWordChar(t[k])
                 IN  <<SubSeq(t, s, RunEnd(s))>> \o F[RunEnd(s) + 1]
    IN  F[1]

\* the vectorizer's analyzer: the terms of a document, with repetitions
analyze(t) ==
    LET tokens == SelectSeq(word_runs(Lower(t)),
                            LAMBDA w : Len(w) >= 2 /\ w \notin StopWords)
        bigrams == [i \in 1..(Len(tokens) - 1) |->
                       tokens[i] \o <<" ">> \o tokens[i + 1]]
    IN  tokens \o bigrams

\* idf of a term found in df of the two documents, in tenths
Idf(df) == IF df = 2 THEN 10 ELSE 14

RECURSIVE Sum(_, _, _)
\* the sum of list[lo..hi]
Sum(list, lo, hi) ==
    IF lo > hi THEN 0
    ELSE IF lo = hi THEN list[lo]
    ELSE LET mid == (lo + hi) \div 2
         IN  Sum(list, lo, mid) + Sum(list, mid + 1, hi)

\* cosine_similarity(X[0:1], X[1:2])[0, 0], a zero norm taken as 1
cosine(g1, g2) ==
    LET tf(term, g) == Cardinality({i \in 1..Len(g) : g[i] = term})
        df(term) == (IF term \in Range(g1) THEN 1 ELSE 0)
                        + (IF term \in Range(g2) THEN 1 ELSE 0)
        w(term, g) == tf(term, g) * Idf(df(term))
        \* the vocabulary's terms of g, each at the place g has it first
        First(g, i) == \A k \in 1..(i - 1) : g[k] # g[i]
        Over(g, f(_)) ==
            Sum([i \in 1..Len(g) |-> IF First(g, i) THEN f(g[i]) ELSE 0], 1, Len(g))
        dot == Over(g1, LAMBDA x : w(x, g1) * w(x, g2))
        sq1 == Over(g1, LAMBDA x : w(x, g1) * w(x, g1))
        sq2 == Over(g2, LAMBDA x : w(x, g2) * w(x, g2))
    IN  [num |-> dot, sq1 |-> Max(1, sq1), sq2 |-> Max(1, sq2)]

ZeroScore == [num |-> 0, sq1 |-> 1, sq2 |-> 1]

\* whether vec.fit_transform(docs) raises: the vocabulary is empty
fit_transform_raises(resume_text, jd_text_) ==
    analyze(resume_text) = <<>> /\ analyze(jd_text_) = <<>>

\* similarity_score without its try block: the ValueError leaves the function
similarity_score_no_try(resume_text, jd_text_) ==
    IF fit_transform_raises(resume_text, jd_text_)
    THEN [raised |-> TRUE, value |-> ZeroScore]
    ELSE [raised |-> FALSE,
          value |-> cosine(analyze(resume_text), analyze(jd_text_))]

similarity_score(resume_text, jd_text_) ==
    IF fit_transform_raises(resume_text, jd_text_)
    THEN [raised |-> FALSE, value |-> ZeroScore]       \* except: return 0.0
    ELSE [raised |-> FALSE,
          value |-> cosine(analyze(resume_text), analyze(jd_text_))]

(***************************************************************************)
(* The script's runs (lines 202-295).  Streamlit runs the script from top  *)
(* to bottom on every change of a widget and on every click; a button is   *)
(* True in the run its click causes.  shown is what a run rendered:        *)
(*   run       which button was True: "none", "score" or "rewrite"         *)
(*   kind      "idle", "error" (line 223) or "results" (lines 234-256)     *)
(*   rt, jd    the handler's normalized texts                              *)
(*   called    the scoring functions the handler invoked                   *)
(*   sim, coverage, found, issues, sugg   what they returned               *)
(*   rewrite_offered   whether line 265 rendered the rewrite button        *)
(*   rewrite   "none", "client_error" (268), "failed" (295), "revised"     *)
(***************************************************************************)
NoResults ==
    [called |-> {}, sim |-> ZeroScore, coverage |-> [num |-> 0, den |-> 1],
     found |-> <<>>, issues |-> <<>>, sugg |-> <<>>]

\* the handler of lines 213-256 with the texts stored before they are
\* tested: a slip that lets an empty text into the session
score_handler_store_first(file, manual, jd_in, libs, env, tmp, session) ==
    LET ex == extract_text_from_upload(file, libs, env, tmp)
        rt0 == IF ~file.isNone THEN ex.text ELSE <<>>
        rt1 == IF rt0 = <<>> /\ manual # <<>> THEN manual ELSE rt0
        rt == clean_text(rt1)
        jd == clean_text(jd_in)
    IN  [session |-> [rt |-> rt, jd |-> jd],
         tmp_file |-> IF ~file.isNone THEN ex.tmp_file ELSE tmp,
         kind |-> IF rt = <<>> \/ jd = <<>> THEN "error" ELSE "results",
         rt |-> rt, jd |-> jd,
         results |-> NoResults]

\* the handler of lines 213-256 with "and" for the "or" of line 222: one
\* text alone is scored
score_handler_partial(file, manual, jd_in, libs, env, tmp, session) ==
    LET ex == extract_text_from_upload(file, libs, env, tmp)
        rt0 == IF ~file.isNone THEN ex.text ELSE <<>>
        rt1 == IF rt0 = <<>> /\ manual # <<>> THEN manual ELSE rt0
        rt == clean_text(rt1)
        jd == clean_text(jd_in)
        cov == keyword_coverage(rt, jd)
    IN  [session |-> IF rt = <<>> /\ jd = <<>> THEN session
                     ELSE [rt |-> rt, jd |-> jd],
         tmp_file |-> IF ~file.isNone THEN ex.tmp_file ELSE tmp,
         kind |-> IF rt = <<>> /\ jd = <<>> THEN "error" ELSE "results",
         rt |-> rt, jd |-> jd,
         results |->
             IF rt = <<>> /\ jd = <<>> THEN NoResults
             ELSE [called |-> {"similarity_score", "keyword_coverage",
                               "detect_ats_issues", "generate_suggestions"},
                   sim |-> similarity_score(rt, jd).value,
                   coverage |-> cov.coverage,
                   found |-> cov.found,
                   issues |-> detect_ats_issues(rt),
                   sugg |-> generate_suggestions(rt, jd, cov.found)]]

\* the handler of lines 213-256: the session it leaves, what it leaves of
\* temp_upload.docx, and what it renders
score_handler(file, manual, jd_in, libs, env, tmp, session) ==
    LET ex == extract_text_from_upload(file, libs, env, tmp)
        rt0 == IF ~file.isNone THEN ex.text ELSE <<>>               \* line 215
        rt1 == IF rt0 = <<>> /\ manual # <<>> THEN manual ELSE rt0  \* 216-217
        rt == clean_text(rt1)
        jd == clean_text(jd_in)
        cov == keyword_coverage(rt, jd)
    IN  [session |-> IF rt = <<>> \/ jd = <<>> THEN session
                     ELSE [rt |-> rt, jd |-> jd],
         tmp_file |-> IF ~file.isNone THEN ex.tmp_file ELSE tmp,
         kind |-> IF rt = <<>> \/ jd = <<>> THEN "error" ELSE "results",
         rt |-> rt, jd |-> jd,
         results |->
             IF rt = <<>> \/ jd = <<>> THEN NoResults
             ELSE [called |-> {"similarity_score", "keyword_coverage",
                               "detect_ats_issues", "generate_suggestions"},
                   sim |-> similarity_score(rt, jd).value,
                   coverage |-> cov.coverage,
                   found |-> cov.found,
                   issues |-> detect_ats_issues(rt),
                   sugg |-> generate_suggestions(rt, jd, cov.found)]]

\* line 262: whether the rewrite section renders its button
rewrite_offered(rt, jd) == ~(rt = <<>> \/ jd = <<>>)

\* what a run renders
Render(run, kind, rt, jd, results, offered, rewrite) ==
    [run |-> run, kind |-> kind, rt |-> rt, jd |-> jd,
     called |-> results.called, sim |-> results.sim,
     coverage |-> results.coverage, found |-> results.found,
     issues |-> results.issues, sugg |-> results.sugg,
     rewrite_offered |-> offered, rewrite |-> rewrite]

NoPrompt == [sent |-> FALSE, rt |-> <<>>, jd |-> <<>>]

(***************************************************************************)
(* The app at rest, for the specifications that apply one function.        *)
(***************************************************************************)
AppIdle ==
    /\ docx2txt = "module"
    /\ PyPDF2 = "module"
    /\ resume_file = NoFile
    /\ resume_text_manual = <<>>
    /\ jd_text = <<>>
    /\ session_rt = <<>>
    /\ session_jd = <<>>
    /\ shown = Render("none", "idle", <<>>, <<>>, NoResults, FALSE, "none")
    /\ prompt = NoPrompt
    /\ tmp_file = FALSE
    /\ scored = [ok |-> FALSE, rt |-> <<>>, jd |-> <<>>]

(***************************************************************************)
(* SpecClean: clean_text applied to every text of at most MaxCleanLen      *)
(* characters over CleanChars, and to None.                                *)
(***************************************************************************)
MaxCleanLen == 6
CleanChars == {"a", " ", "\t", "\n"}

InitClean ==
    /\ AppIdle
    /\ args \in {[t |-> x] : x \in TextsUpTo(CleanChars, MaxCleanLen) \cup {None}}
    /\ ret = NotCalled

ApplyCleanText ==
    /\ ~ret.done
    /\ ret' = Returned(clean_text(args.t))
    /\ UNCHANGED <<args, appVars>>

NextClean == ApplyCleanText

SpecClean == InitClean /\ [][NextClean]_vars

\* C2: clean_text is idempotent: cleaning what clean_text returned (for any
\* text, the empty text and None included) gives that same text back.
C2_CleanIdempotent ==
    ret.done => clean_text(ret.value) = ret.value

\* C2's case: a text with whitespace runs inside and around it was cleaned.
C2_Witness ==
    /\ ret.done
    /\ args.t = <<" ", "a", "\t", "\n", "a", " ">>
    /\ ret.value = <<"a", " ", "a">>

(***************************************************************************)
(* SpecCoverage: keyword_coverage applied to every resume of at most       *)
(* MaxResumeChunks and every job description of at most MaxJdChunks of the *)
(* pieces CovChunks, put one after the other.                              *)
(***************************************************************************)
MaxJdChunks == 4
MaxResumeChunks == 2
CovChunks == {<<"a", "B", "+">>, <<"b", "a">>, <<" ">>, <<"#">>}

ChunkTexts(chunks, n) == {Flatten(cs) : cs \in TextsUpTo(chunks, n)}

InitCoverage ==
    /\ AppIdle
    /\ args \in [resume_text : ChunkTexts(CovChunks, MaxResumeChunks),
                 jd_text : ChunkTexts(CovChunks, MaxJdChunks)]
    /\ ret = NotCalled

ApplyKeywordCoverage ==
    /\ ~ret.done
    /\ ret' = Returned(keyword_coverage(args.resume_text, args.jd_text))
    /\ UNCHANGED <<args, appVars>>

NextCoverage == ApplyKeywordCoverage

SpecCoverage == InitCoverage /\ [][NextCoverage]_vars

\* C1: for every resume and reference text, keyword_coverage returns
\* (coverage, found, unique) with every found keyword among unique, a divisor
\* that is never zero, coverage = 100 * |found| / max(1, |unique|),
\* 0 <= coverage <= 100, and coverage 0 when the reference yields no token.
C1_CoverageResult ==
    ret.done =>
        LET r == ret.value
            c == r.coverage
        IN  /\ \A i \in 1..Len(r.found) : r.found[i] \in Range(r.unique)
            /\ c.den > 0
            /\ c.num * Max(1, Cardinality(Range(r.unique)))
                   = 100 * Cardinality(Range(r.found)) * c.den
            /\ 0 <= c.num /\ c.num <= 100 * c.den
            /\ (r.unique = <<>> => c.num = 0)

\* C1's cases: a reference with two keywords of which the resume holds one,
\* and a reference that yields no keyword at all.
C1_Witness ==
    /\ ret.done
    /\ ret.value.unique = << <<"a", "b", "+">>, <<"b", "a", "b", "a">> >>
    /\ ret.value.found = << <<"b", "a", "b", "a">> >>
    /\ ret.value.coverage = [num |-> 100, den |-> 2]

C1_WitnessEmpty ==
    /\ ret.done
    /\ args.jd_text = <<"b", "a", " ", "#">>
    /\ ret.value.unique = <<>>
    /\ ret.value.coverage.num = 0

(***************************************************************************)
(* SpecAts: detect_ats_issues applied to every text made of at most        *)
(* MaxAtsChunks of the pieces AtsChunks, among them a filler of FillerLen  *)
(* letters, two of which reach ShortLimit.                                 *)
(***************************************************************************)
MaxAtsChunks == 3
FillerLen == 250
Filler == [i \in 1..FillerLen |-> "x"]
AtsChunks ==
    {Filler,
     <<"a", "@", "b", ".", "c", "o", "m">>,
     <<"\t">>,
     <<"5", "5", "5", "1", "2", "3", "4", "5", "6", "7">>,
     <<"(", "5", "5", "5", ")", " ", "1", "2", "3", "-", "4", "5", "6", "7">>,
     <<"E", "d", "u", "c", "a", "t", "i", "o", "n">>,
     <<"E", "M", "P", "L", "O", "Y", "M", "E", "N", "T">>}

InitAts ==
    /\ AppIdle
    /\ args \in [resume_text : ChunkTexts(AtsChunks, MaxAtsChunks)]
    /\ ret = NotCalled

ApplyDetectAtsIssues ==
    /\ ~ret.done
    /\ ret' = Returned(detect_ats_issues(args.resume_text))
    /\ UNCHANGED <<args, appVars>>

NextAts == ApplyDetectAtsIssues

SpecAts == InitAts /\ [][NextAts]_vars

\* the place of a finding in the checklist
AtsIndex(m) == CHOOSE k \in 1..6 : AtsMessages[k] = m

\* C3: detect_ats_issues runs its six checks independently: each finding is
\* returned exactly when its own condition holds, whatever the others give,
\* the findings come in checklist order, and a text under 500 characters
\* with no '@', no digit and no section keyword gets at least the findings
\* length, email, phone, education and experience.
C3_AllChecksIndependent ==
    ret.done =>
        LET t == args.resume_text
            issues == ret.value
        IN  /\ Range(issues) \subseteq Range(AtsMessages)
            /\ \A k \in 1..6 : (AtsMessages[k] \in Range(issues)) <=> AtsCondition(k, t)
            /\ \A i, j \in 1..Len(issues) :
                  i < j => AtsIndex(issues[i]) < AtsIndex(issues[j])
            /\ (/\ Len(t) < ShortLimit
                /\ ~Contains(t, <<"@">>)
                /\ \A i \in 1..Len(t) : ~IsDigit(t[i])
                /\ \A w \in EducationWords \cup ExperienceWords :
                      ~ContainsIgnoreCase(t, w))
               => {AtsMessages[k] : k \in {1, 3, 4, 5, 6}} \subseteq Range(issues)

\* C3's case: a short text with a tab and nothing else gets all six findings,
\* none of them cut off by an earlier one.
C3_Witness ==
    /\ ret.done
    /\ args.resume_text = Filler \o <<"\t">>
    /\ ret.value = AtsMessages

\* a text of ShortLimit characters with an email and a phone number gets the
\* two section findings only
C3_WitnessLong ==
    /\ ret.done
    /\ Len(args.resume_text) >= ShortLimit
    /\ ret.value = <<AtsMessages[3], AtsMessages[5], AtsMessages[6]>>

(***************************************************************************)
(* SpecSuggest: generate_suggestions applied to every resume made of at    *)
(* most MaxSuggestChunks of the pieces SuggestChunks, a job description of *)
(* SuggestJds and the found keywords the scoring flow passes (line 232) or *)
(* none.                                                                   *)
(***************************************************************************)
MaxSuggestChunks == 4
SuggestChunks == {Bullet, Dash, <<"x", "y", "z">>, <<"1", "2">>}
SuggestJds == {<<>>, <<"x", "y", "z", " ", "p", "y", "t", "h", "o", "n", " ", "1", "2">>}

InitSuggest ==
    /\ AppIdle
    /\ \E r \in ChunkTexts(SuggestChunks, MaxSuggestChunks), j \in SuggestJds :
          \E f \in {<<>>, keyword_coverage(r, j).found} :
              args = [resume_text |-> r, jd_text |-> j, found_keywords |-> f]
    /\ ret = NotCalled

ApplyGenerateSuggestions ==
    /\ ~ret.done
    /\ ret' = Returned(generate_suggestions(args.resume_text, args.jd_text,
                                            args.found_keywords))
    /\ UNCHANGED <<args, appVars>>

NextSuggest == ApplyGenerateSuggestions

SpecSuggest == InitSuggest /\ [][NextSuggest]_vars

\* C10 as stated: the 'use bullet points' suggestion is emitted exactly when
\* the bullet glyphs and the "- " occurrences of the resume, added up, are
\* fewer than 3, and the tailoring suggestion is the last of the list.
C10_BulletTotalBelowThree ==
    ret.done =>
        /\ (BulletSuggestion \in Range(ret.value))
              <=> (Count(args.resume_text, Bullet) + Count(args.resume_text, Dash)
                       < BulletLimit)
        /\ ret.value[Len(ret.value)] = TailorSuggestion

\* C10 as amended: the 'use bullet points' suggestion is emitted exactly when
\* the bullet glyphs are fewer than 3 and the "- " occurrences are fewer than
\* 3, each counted on its own, and the tailoring suggestion is the last of
\* the list.
C10_BulletEachBelowThree ==
    ret.done =>
        /\ (BulletSuggestion \in Range(ret.value))
              <=> (/\ Count(args.resume_text, Bullet) < BulletLimit
                   /\ Count(args.resume_text, Dash) < BulletLimit)
        /\ ret.value # <<>>
        /\ ret.value[Len(ret.value)] = TailorSuggestion
        /\ \A i \in 1..(Len(ret.value) - 1) : ret.value[i] # TailorSuggestion

\* C10's case: two glyphs and two "- ", four markers in all, and the bullet
\* suggestion is still made, before the closing tailoring suggestion.
C10_Witness ==
    /\ ret.done
    /\ Count(args.resume_text, Bullet) = 2
    /\ Count(args.resume_text, Dash) = 2
    /\ ret.value = <<QuantifySuggestion, BulletSuggestion, TailorSuggestion>>

(***************************************************************************)
(* SpecExtract: extract_text_from_upload applied to no upload and to every *)
(* upload with a name of UploadNames, at most MaxBytes bytes of            *)
(* UploadBytes, every behaviour of the parser of its extension on at most  *)
(* MaxPages pages, every behaviour of the file system, and the parser      *)
(* libraries installed or not.                                             *)
(***************************************************************************)
MaxBytes == 2
MaxPages == 2
UploadNames ==
    {<<"a", ".", "t", "x", "t">>, <<"A", ".", "D", "O", "C", "X">>,
     <<"a", ".", "p", "d", "f">>, <<"a", ".", "r", "t", "f">>}
\* "A", the two bytes of U+00E9 in UTF-8, and a byte no UTF-8 text holds
UploadBytes == {65, 195, 169, 255}
DocxTexts == {None, <<>>, <<"h", "i">>}
PageTexts == {None, <<"p">>}

NoDocx == [raises |-> TRUE, text |-> None]
NoPdf == [raises |-> TRUE, pages |-> <<>>]
DocxOutcomes == {NoDocx} \cup {[raises |-> FALSE, text |-> t] : t \in DocxTexts}
PageOutcomes ==
    {[raises |-> TRUE, text |-> None]} \cup {[raises |-> FALSE, text |-> t] : t \in PageTexts}
PdfOutcomes ==
    {NoPdf} \cup {[raises |-> FALSE, pages |-> ps] : ps \in TextsUpTo(PageOutcomes, MaxPages)}

\* the uploads: only a file named .docx may be one docx2txt reads, only a
\* file named .pdf one PyPDF2 reads
Uploads ==
    {u \in [isNone : {FALSE}, name : UploadNames,
            content : TextsUpTo(UploadBytes, MaxBytes),
            docx : DocxOutcomes, pdf : PdfOutcomes] :
        /\ (~EndsWith(Lower(u.name), <<".", "d", "o", "c", "x">>) => u.docx = NoDocx)
        /\ (~EndsWith(Lower(u.name), <<".", "p", "d", "f">>) => u.pdf = NoPdf)}

Envs == [write : {"ok", "open_raises", "write_raises"}, remove : {"ok", "raises"}]
OkEnv == [write |-> "ok", remove |-> "ok"]
Modules == {"module", "None"}

InitExtract ==
    /\ docx2txt \in Modules
    /\ PyPDF2 \in Modules
    /\ resume_file = NoFile
    /\ resume_text_manual = <<>>
    /\ jd_text = <<>>
    /\ session_rt = <<>>
    /\ session_jd = <<>>
    /\ shown = Render("none", "idle", <<>>, <<>>, NoResults, FALSE, "none")
    /\ prompt = NoPrompt
    /\ tmp_file = FALSE
    /\ scored = [ok |-> FALSE, rt |-> <<>>, jd |-> <<>>]
    /\ args \in [uploaded_file : Uploads \cup {NoFile}, env : Envs]
    /\ ret = NotCalled

ApplyExtractTextFromUpload ==
    /\ ~ret.done
    /\ LET r == extract_text_from_upload(
                    args.uploaded_file,
                    [docx2txt |-> docx2txt, PyPDF2 |-> PyPDF2], args.env, tmp_file)
       IN  /\ ret' = Returned(r)
           /\ tmp_file' = r.tmp_file
    /\ UNCHANGED <<args, docx2txt, PyPDF2, resume_file, resume_text_manual,
                   jd_text, session_rt, session_jd, shown, prompt, scored>>

NextExtract == ApplyExtractTextFromUpload

SpecExtract == InitExtract /\ [][NextExtract]_vars

\* C5: whenever extract_text_from_upload has written temp_upload.docx, the
\* file is gone when the function returns, whether docx2txt.process
\* succeeded or raised (stated here of the runs in which writing and
\* removing a file never fail, the runs where only the code decides).
C5_TempFileRemoved ==
    (ret.done /\ ret.value.wrote_tmp /\ args.env = OkEnv) => ~tmp_file

\* the upload is handled by the .docx block / by the .pdf block
UsesDocx ==
    /\ ~args.uploaded_file.isNone
    /\ EndsWith(Lower(args.uploaded_file.name), <<".", "d", "o", "c", "x">>)
    /\ docx2txt = "module"
UsesPdf ==
    /\ ~args.uploaded_file.isNone
    /\ EndsWith(Lower(args.uploaded_file.name), <<".", "p", "d", "f">>)
    /\ PyPDF2 = "module"
SomePageRaises ==
    \E i \in 1..Len(args.uploaded_file.pdf.pages) :
        args.uploaded_file.pdf.pages[i].raises

\* what C6 and its amendment share: no exception leaves the function, an
\* absent upload gives "", a .docx upload whose writing or processing fails
\* and a .pdf upload whose reader fails give the fallback decoding, and so
\* does an upload with another extension or with its parser not installed.
ExtractCommon ==
    LET u == args.uploaded_file
        r == ret.value
    IN  /\ ~r.raised
        /\ u.isNone => r.text = <<>>
        /\ ~u.isNone =>
            /\ (UsesDocx /\ (u.docx.raises \/ args.env.write # "ok"))
                  => r.text = decode_utf8_ignore(u.content)
            /\ (UsesPdf /\ u.pdf.raises) => r.text = decode_utf8_ignore(u.content)
            /\ (~UsesDocx /\ ~UsesPdf) => r.text = decode_utf8_ignore(u.content)

\* C6 as stated: ... and a failure while extracting a single PDF page makes
\* the function return the fallback decoding of the raw bytes too.
C6_AnyFailureFallsBack ==
    ret.done =>
        /\ ExtractCommon
        /\ (UsesPdf /\ ~args.uploaded_file.pdf.raises /\ SomePageRaises)
              => ret.value.text = decode_utf8_ignore(args.uploaded_file.content)

\* C6 as amended: ... but a failure while extracting a single PDF page makes
\* that page count as the empty text: the function returns the texts of the
\* pages joined by newlines, not the fallback decoding.
C6_PageFailureIsEmptyPage ==
    ret.done =>
        /\ ExtractCommon
        /\ (UsesPdf /\ ~args.uploaded_file.pdf.raises)
              => LET pages == args.uploaded_file.pdf.pages IN
                 ret.value.text =
                     Join(<<"\n">>,
                          [i \in 1..Len(pages) |->
                              IF pages[i].raises \/ pages[i].text = None
                              THEN <<>> ELSE pages[i].text])

\* C6's case: a PDF of two pages, the first of which fails to extract, with
\* bytes that decode to a text: the second page's text is returned.
C6_Witness ==
    /\ ret.done
    /\ UsesPdf
    /\ args.uploaded_file.content = <<195, 169>>
    /\ args.uploaded_file.pdf.pages =
           <<[raises |-> TRUE, text |-> None], [raises |-> FALSE, text |-> <<"p">>]>>
    /\ ret.value.text = <<"\n", "p">>

(***************************************************************************)
(* SpecSimilarity: similarity_score applied to every pair of texts of at   *)
(* most MaxSimWords of the words SimWords, a space between two words.      *)
(***************************************************************************)
MaxSimWords == 2
SimWords ==
    {<<"a">>, <<"t", "h", "e">>, <<"p", "y", "t", "h", "o", "n">>,
     <<"P", "y", "t", "h", "o", "n">>, <<"d", "a", "t", "a">>}
SimTexts == {Join(<<" ">>, ws) : ws \in TextsUpTo(SimWords, MaxSimWords)}

InitSimilarity ==
    /\ AppIdle
    /\ args \in [resume_text : SimTexts, jd_text : SimTexts]
    /\ ret = NotCalled

ApplySimilarityScore ==
    /\ ~ret.done
    /\ ret' = Returned(similarity_score(args.resume_text, args.jd_text))
    /\ UNCHANGED <<args, appVars>>

NextSimilarity == ApplySimilarityScore

SpecSimilarity == InitSimilarity /\ [][NextSimilarity]_vars

\* the tokens the vectorizer keeps of a text: words of two or more
\* characters that are no stop words
KeptTokens(t) ==
    {w \in Range(word_runs(Lower(t))) : Len(w) >= 2 /\ w \notin StopWords}

\* C9: similarity_score never raises; when the vectorization fails (no term
\* is left of either text once the stop words are dropped, as for ("", "")
\* and ("a", "")) it returns 0.0, and otherwise it returns the cosine
\* similarity times 100, a value from 0 to 100.
C9_SimilarityNeverRaises ==
    ret.done =>
        LET v == ret.value.value IN
        /\ ~ret.value.raised
        /\ (KeptTokens(args.resume_text) \cup KeptTokens(args.jd_text) = {})
              => v = ZeroScore
        /\ v.sq1 > 0 /\ v.sq2 > 0
        /\ 0 <= v.num /\ v.num * v.num <= v.sq1 * v.sq2
        /\ (v.num > 0) <=>
              (KeptTokens(args.resume_text) \cap KeptTokens(args.jd_text) # {})
        /\ (args.resume_text = args.jd_text /\ KeptTokens(args.jd_text) # {})
              => v.num * v.num = v.sq1 * v.sq2

\* C9's case: similarity_score("a", "") has returned 0.0.
C9_Witness ==
    /\ ret.done
    /\ args.resume_text = <<"a">>
    /\ args.jd_text = <<>>
    /\ ret.value = [raised |-> FALSE, value |-> ZeroScore]

\* two texts that share one term of three score between 0 and 100
C9_WitnessBetween ==
    /\ ret.done
    /\ ret.value.value.num > 0
    /\ ret.value.value.num * ret.value.value.num
           < ret.value.value.sq1 * ret.value.value.sq2

(***************************************************************************)
(* Spec: the app in one browser session.  The user changes the three       *)
(* input widgets and clicks the two buttons in any order; the file system  *)
(* and the OpenAI client behave in every way at every click.               *)
(***************************************************************************)
ScenarioResume ==
    <<"E", "x", "p", "e", "r", "i", "e", "n", "c", "e", "d", " ", "D", "a",
      "t", "a", " ", "S", "c", "i", "e", "n", "t", "i", "s", "t", ".", " ",
      "E", "d", "u", "c", "a", "t", "i", "o", "n", ":", " ", "B", "S", " ",
      "C", "o", "m", "p", "u", "t", "e", "r", " ", "S", "c", "i", "e", "n",
      "c", "e", ",", " ", "U", "n", "i", "v", "e", "r", "s", "i", "t", "y",
      " ", "o", "f", " ", "X", ".", " ", "E", "x", "p", "e", "r", "i", "e",
      "n", "c", "e", ":", " ", "b", "u", "i", "l", "t", " ", "m", "a", "c",
      "h", "i", "n", "e", " ", "l", "e", "a", "r", "n", "i", "n", "g", " ",
      "m", "o", "d", "e", "l", "s", ".", " ", "C", "o", "n", "t", "a", "c",
      "t", ":", " ", "a", "@", "b", ".", "c", "o", "m", ",", " ", "(", "5",
      "5", "5", ")", " ", "1", "2", "3", "-", "4", "5", "6", "7", ".">>
ScenarioJd ==
    <<"L", "o", "o", "k", "i", "n", "g", " ", "f", "o", "r", " ", "a", " ",
      "d", "a", "t", "a", " ", "s", "c", "i", "e", "n", "t", "i", "s", "t",
      " ", "w", "i", "t", "h", " ", "P", "y", "t", "h", "o", "n", " ", "a",
      "n", "d", " ", "m", "a", "c", "h", "i", "n", "e", " ", "l", "e", "a",
      "r", "n", "i", "n", "g", " ", "e", "x", "p", "e", "r", "i", "e", "n",
      "c", "e", ".">>

ManualTexts ==
    {<<>>, <<" ", "\n">>, ScenarioResume,
     <<"P", "y", "t", "h", "o", "n", " ", "d", "e", "v">>}
JdTexts == {<<>>, <<"\t">>, ScenarioJd, <<"p", "y", "t", "h", "o", "n">>}
AppUploads ==
    {[isNone |-> FALSE, name |-> <<"a", ".", "t", "x", "t">>, content |-> <<65, 255>>,
      docx |-> NoDocx, pdf |-> NoPdf],
     [isNone |-> FALSE, name |-> <<"A", ".", "D", "O", "C", "X">>, content |-> <<>>,
      docx |-> NoDocx, pdf |-> NoPdf],
     [isNone |-> FALSE, name |-> <<"A", ".", "D", "O", "C", "X">>, content |-> <<65>>,
      docx |-> [raises |-> FALSE, text |-> <<"h", "i", " ", " ", "x">>],
      pdf |-> NoPdf]}

Init ==
    /\ docx2txt \in Modules
    /\ PyPDF2 = "module"
    /\ resume_file = NoFile
    /\ resume_text_manual = <<>>
    /\ jd_text = <<>>
    /\ session_rt = <<>>                                   \* lines 208-211
    /\ session_jd = <<>>
    /\ shown = Render("none", "idle", <<>>, <<>>, NoResults, FALSE, "none")
    /\ prompt = NoPrompt
    /\ tmp_file = FALSE
    /\ scored = [ok |-> FALSE, rt |-> <<>>, jd |-> <<>>]
    /\ args = [none |-> TRUE]
    /\ ret = NotCalled

\* a run no button caused: the inputs are drawn again, and the rewrite
\* section by the session's texts
RerunIdle ==
    /\ shown' = Render("none", "idle", <<>>, <<>>, NoResults,
                       rewrite_offered(session_rt, session_jd), "none")
    /\ prompt' = NoPrompt
    /\ UNCHANGED <<docx2txt, PyPDF2, session_rt, session_jd, tmp_file, scored,
                   args, ret>>

SetResumeFile ==
    /\ \E u \in AppUploads \cup {NoFile} : u # resume_file /\ resume_file' = u
    /\ RerunIdle
    /\ UNCHANGED <<resume_text_manual, jd_text>>

SetResumeTextManual ==
    /\ \E t \in ManualTexts : t # resume_text_manual /\ resume_text_manual' = t
    /\ RerunIdle
    /\ UNCHANGED <<resume_file, jd_text>>

SetJdText ==
    /\ \E t \in JdTexts : t # jd_text /\ jd_text' = t
    /\ RerunIdle
    /\ UNCHANGED <<resume_file, resume_text_manual>>

\* a click on "Score My Resume": lines 213-256, then lines 262-265
ClickScore ==
    \E env \in (IF resume_file.isNone THEN {OkEnv} ELSE Envs) :
        \E h \in {score_handler(resume_file, resume_text_manual, jd_text,
                               [docx2txt |-> docx2txt, PyPDF2 |-> PyPDF2],
                               env, tmp_file,
                               [rt |-> session_rt, jd |-> session_jd])} :
            /\ session_rt' = h.session.rt
            /\ session_jd' = h.session.jd
            /\ tmp_file' = h.tmp_file
            /\ shown' = Render("score", h.kind, h.rt, h.jd, h.results,
                               rewrite_offered(h.session.rt, h.session.jd),
                               "none")
            /\ scored' = IF h.kind = "results"
                         THEN [ok |-> TRUE, rt |-> h.rt, jd |-> h.jd]
                         ELSE scored
            /\ prompt' = NoPrompt
            /\ UNCHANGED <<docx2txt, PyPDF2, resume_file, resume_text_manual,
                           jd_text, args, ret>>

\* a click on "Rewrite my resume for this JD", a button the last run must
\* have rendered: lines 262-295.  client is what get_openai_client gives
\* (a client, or an error message), api what the completion call does.
ClickRewrite ==
    /\ shown.rewrite_offered
    /\ \E client \in {"client", "err"}, api \in {"revised", "raises"} :
          LET offered == rewrite_offered(session_rt, session_jd)
              sends == offered /\ client = "client"
          IN  /\ prompt' = IF sends
                           THEN [sent |-> TRUE, rt |-> session_rt, jd |-> session_jd]
                           ELSE NoPrompt
              /\ shown' = Render("rewrite", "idle", <<>>, <<>>, NoResults, offered,
                                 IF ~offered THEN "none"
                                 ELSE IF client = "err" THEN "client_error"
                                 ELSE IF api = "raises" THEN "failed"
                                 ELSE "revised")
    /\ UNCHANGED <<docx2txt, PyPDF2, resume_file, resume_text_manual, jd_text,
                   session_rt, session_jd, tmp_file, scored, args, ret>>

Next ==
    \/ SetResumeFile
    \/ SetResumeTextManual
    \/ SetJdText
    \/ ClickScore
    \/ ClickRewrite

Spec == Init /\ [][Next]_vars

\* the state a score run on the scenario's two texts leaves
ScenarioScored ==
    /\ shown.run = "score"
    /\ shown.rt = ScenarioResume
    /\ shown.jd = ScenarioJd

Machine == <<"m", "a", "c", "h", "i", "n", "e">>
Python == <<"p", "y", "t", "h", "o", "n">>

\* C4 as the spec states it: scoring the scenario's resume against the
\* scenario's job description gives no structural finding, a coverage
\* above 0 and found keywords that include "machine" or "python".
C4_ScenarioNoFindings ==
    ScenarioScored =>
        /\ shown.kind = "results"
        /\ shown.issues = <<>>
        /\ shown.coverage.num > 0
        /\ (Machine \in Range(shown.found) \/ Python \in Range(shown.found))

\* C4, amended: scoring the scenario's resume against the scenario's job
\* description gives exactly one structural finding, the one of line 146
\* for a resume of fewer than 500 characters; the coverage is 40.0 (4 of
\* the 10 keywords) and the found keywords are data, learning, machine and
\* scientist.
C4_ScenarioShortFinding ==
    ScenarioScored =>
        /\ shown.kind = "results"
        /\ shown.issues = <<AtsMessages[1]>>
        /\ shown.coverage.num > 0
        /\ shown.coverage = [num |-> 400, den |-> 10]
        /\ shown.found = <<<<"d", "a", "t", "a">>,
                           <<"l", "e", "a", "r", "n", "i", "n", "g">>,
                           Machine,
                           <<"s", "c", "i", "e", "n", "t", "i", "s", "t">>>>
        /\ Python \notin Range(shown.found)
        /\ shown.sim.num > 0

\* C4's case: the Score button was clicked with the scenario's resume in
\* the text area, the scenario's job description, and no upload.
C4_Witness ==
    /\ ScenarioScored
    /\ resume_file = NoFile
    /\ resume_text_manual = ScenarioResume
    /\ jd_text = ScenarioJd
    /\ Len(shown.rt) < ShortLimit

\* C7: a score run whose normalized resume text or normalized job
\* description is empty shows the error of line 223, calls none of
\* similarity_score, keyword_coverage, detect_ats_issues and
\* generate_suggestions, and leaves the session's rt and jd as they were.
C7_EmptyInputSkipsScoring ==
    [][(shown'.run = "score" /\ (shown'.rt = <<>> \/ shown'.jd = <<>>))
          => /\ shown'.kind = "error"
             /\ shown'.called = {}
             /\ session_rt' = session_rt
             /\ session_jd' = session_jd]_vars

\* C7's case: after a score run that succeeded, a score run with a resume
\* but an empty job description has shown the error and kept the session.
C7_Witness ==
    /\ shown.run = "score"
    /\ shown.kind = "error"
    /\ shown.rt # <<>>
    /\ shown.jd = <<>>
    /\ scored.ok
    /\ session_rt = scored.rt
    /\ session_rt # shown.rt

\* C8: the rewrite button is rendered, and a prompt sent, only after a
\* score run that succeeded; the session's rt and jd are both empty or both
\* non-empty texts that clean_text leaves as they are; and the two texts of
\* a prompt are the ones the most recent successful score run stored.
C8_RewriteUsesScoredTexts ==
    /\ (shown.rewrite_offered \/ prompt.sent) => scored.ok
    /\ \/ session_rt = <<>> /\ session_jd = <<>>
       \/ /\ session_rt # <<>>
          /\ session_jd # <<>>
          /\ clean_text(session_rt) = session_rt
          /\ clean_text(session_jd) = session_jd
    /\ scored.ok => (session_rt = scored.rt /\ session_jd = scored.jd)
    /\ prompt.sent => (prompt.rt = scored.rt /\ prompt.jd = scored.jd)

\* C8's case: a prompt was sent with the scenario's texts while the text
\* areas hold other texts, and the last score run had failed on them.
C8_Witness ==
    /\ prompt.sent
    /\ prompt.rt = ScenarioResume
    /\ prompt.jd = ScenarioJd
    /\ resume_file = NoFile
    /\ resume_text_manual # <<>>
    /\ resume_text_manual # ScenarioResume
    /\ jd_text = <<>>


=============================================================================
